---------------------------- MODULE Spec2Model ----------------------------
(***************************************************************************)
(* Ground-risk-buffer service (grb.py, app.py).                            *)
(*                                                                         *)
(* Spec     : the POST /api/grb/run handler, one request per behaviour,    *)
(*            stepped in the order of the handler's statements.            *)
(* CalcSpec : the GroundRiskBufferCalc class used directly: construction   *)
(*            with an arbitrary version, then one method call.             *)
(*                                                                         *)
(* Python floats are modelled in fixed point: a quantity q (m, m/s, s,     *)
(* degrees, dimensionless factor) is the integer floor(q * Scale).         *)
(***************************************************************************)
EXTENDS Integers, Sequences, FiniteSets, TLC

VARIABLES pc, req, grb, dist, evaluated, work, layers, resp, error, out

vars == <<pc, req, grb, dist, evaluated, work, layers, resp, error, out>>

\* ------------------------------------------------------------------ bounds
\* Largest number of features in the request's FeatureCollection.
MaxFeatures == 2
\* Cruise speeds of a request are 0, 15, .., 15 * SpeedSteps m/s.
SpeedSteps == 2

\* ------------------------------------------------------- float arithmetic
\* Fixed-point resolution: 1/Scale (millimetres for lengths).
Scale == 1000

\* Python's None; dicts and objects are records, so None compares with them.
None == [type |-> "NoneType"]

\* a * b
MulFix(a, b) == (a \div Scale) * b + ((a % Scale) * b) \div Scale

\* a / b, b > 0
DivFix(a, b) == (a \div b) * Scale + ((a % b) * Scale) \div b

RECURSIVE Bisect(_, _, _)
Bisect(n, lo, hi) ==
    IF lo >= hi THEN lo
    ELSE LET mid == (lo + hi + 1) \div 2
         IN  IF mid * mid <= n THEN Bisect(n, mid, hi)
             ELSE Bisect(n, lo, mid - 1)

\* math.sqrt(x), x >= 0
sqrt(x) == Bisect(x * Scale, 0, 46340)

\* math.sqrt(2) / 2
HalfSqrt2 == 707

\* math.tan(torad(deg)) at the two angles of the constants table
tan_torad(deg) ==
    CASE deg = 45000 -> 1000
      [] deg = 30000 -> 577

\* ---------------------------------------------------------- constants table
CONST ==
    [v \in {"3.3.0"} |->
        [trt |-> 1000, g |-> 9810, sgps |-> 3000, spos |-> 3000, smap |-> 1000,
         hbaro |-> 4000, roh_rotorcraft |-> 45000, roh_fixedwing |-> 30000,
         tdlt |-> 15000, Vtr |-> 25000, RODtr |-> 3000]]

CURRENT_VERSION == "3.3.0"

AIRCRAFTTYPS == {"rotorcraft", "fixedwing"}

\* ------------------------------------------------------------ constructor
\* self.version after line 48: bound only when the alias "current" is given.
BoundVersion(version) ==
    IF version = "current" THEN CURRENT_VERSION ELSE "<unbound>"

\* Variant: an unknown aircraft class falls back to the default class.
GroundRiskBufferCalc_default_class(version, aircrafttype, prs_enabled) ==
    LET v == BoundVersion(version) IN
    IF v = "<unbound>" THEN [exc |-> "AttributeError", self |-> None]
    ELSE [exc |-> "",
          self |-> [type |-> "GroundRiskBufferCalc", version |-> v,
                    const |-> CONST[v],
                    aircrafttype |-> IF aircrafttype \in AIRCRAFTTYPS
                                     THEN aircrafttype ELSE "rotorcraft",
                    prs_enabled |-> prs_enabled]]

\* GroundRiskBufferCalc.__init__: [exc, self]; exc = "" when it returns.
GroundRiskBufferCalc(version, aircrafttype, prs_enabled) ==
    LET v == BoundVersion(version) IN
    IF v = "<unbound>" THEN [exc |-> "AttributeError", self |-> None]
    ELSE IF v \notin DOMAIN CONST THEN [exc |-> "KeyError", self |-> None]
    ELSE IF aircrafttype \notin AIRCRAFTTYPS
         THEN [exc |-> "KeyError", self |-> None]
    ELSE [exc |-> "",
          self |-> [type |-> "GroundRiskBufferCalc", version |-> v,
                    const |-> CONST[v], aircrafttype |-> aircrafttype,
                    prs_enabled |-> prs_enabled]]

\* ---------------------------------------------------------------- formulas
get_srt(self, v0) == MulFix(self.const.trt, v0)

get_scm(self, v0) ==
    IF self.aircrafttype = "rotorcraft"
    THEN DivFix(MulFix(v0, v0),
                MulFix(self.const.g, tan_torad(self.const.roh_rotorcraft))) \div 2
    ELSE DivFix(MulFix(v0, v0),
                MulFix(self.const.g, tan_torad(self.const.roh_fixedwing)))

get_hrt(self, v0, roc) ==
    IF self.aircrafttype = "rotorcraft"
    THEN MulFix(roc, self.const.trt)
    ELSE MulFix(MulFix(HalfSqrt2, v0), self.const.trt)

get_hcm(self, v0) ==
    IF self.aircrafttype = "rotorcraft"
    THEN DivFix(MulFix(v0, v0), self.const.g) \div 2
    ELSE MulFix(300, DivFix(MulFix(v0, v0), self.const.g))

\* Variant: the altitude measurement error hbaro is left out.
get_hcv_no_hbaro(self, v0, hfg, roc) ==
    hfg + get_hrt(self, v0, roc) + get_hcm(self, v0)

get_hcv(self, v0, hfg, roc) ==
    hfg + self.const.hbaro + get_hrt(self, v0, roc) + get_hcm(self, v0)

get_scv(self, v0) ==
    self.const.sgps + self.const.spos + self.const.smap
        + get_srt(self, v0) + get_scm(self, v0)

\* Variant: the aircraft class is looked at before the PRS flag.
get_sgrb_class_first(self, v0, vw, cd, hfg, roc) ==
    IF self.aircrafttype = "rotorcraft"
    THEN LET sgrb == MulFix(v0, sqrt(DivFix(2 * get_hcv(self, v0, hfg, roc),
                                            self.const.g))) + cd \div 2
         IN  IF sgrb > get_hcv(self, v0, hfg, roc) + cd \div 2
             THEN get_hcv(self, v0, hfg, roc) + cd \div 2
             ELSE sgrb
    ELSE IF self.prs_enabled
    THEN v0 * 2 + MulFix(vw, get_hcv(self, v0, hfg, roc) \div 5)
    ELSE get_hcv(self, v0, hfg, roc) + cd \div 2

get_sgrb(self, v0, vw, cd, hfg, roc) ==
    IF self.prs_enabled
    THEN v0 * 2 + MulFix(vw, get_hcv(self, v0, hfg, roc) \div 5)
    ELSE IF self.aircrafttype = "rotorcraft"
    THEN LET sgrb == MulFix(v0, sqrt(DivFix(2 * get_hcv(self, v0, hfg, roc),
                                            self.const.g))) + cd \div 2
         IN  IF sgrb > get_hcv(self, v0, hfg, roc) + cd \div 2
             THEN get_hcv(self, v0, hfg, roc) + cd \div 2
             ELSE sgrb
    ELSE get_hcv(self, v0, hfg, roc) + cd \div 2

get_te(self, rod, hfg) ==
    self.const.tdlt + self.const.trt + DivFix(hfg - 30000, rod)

\* operationtype is whatever the caller passes: a string, or the text of a
\* number when a number is passed in its place.
get_ddeco(self, v0, rod, hfg, operationtype, cd) ==
    IF operationtype = "BVLOS"
    THEN MulFix(get_te(self, rod, hfg), self.const.Vtr + v0)
    ELSE LET ALOS == IF self.aircrafttype = "rotorcraft"
                     THEN 327 * cd + 20000
                     ELSE 490 * cd + 30000
             teva == self.const.trt + DivFix(hfg - 30000, rod)
             deva == MulFix(self.const.Vtr + v0, teva)
             DLOS == deva + ALOS
         IN  IF DivFix(DLOS, 300) > 5000000 THEN 5000000
             ELSE DivFix(DLOS, 300)

get_hdeco(self, roc, rod, hfg) ==
    MulFix(self.const.RODtr + roc, get_te(self, rod, hfg))

\* Variant: the two limits are swapped.
get_adjacent_area_swapped(self, v0) ==
    LET aasize == v0 * 180
        Min(a, b) == IF a < b THEN a ELSE b
        Max(a, b) == IF a > b THEN a ELSE b
    IN  Max(35000000, Min(aasize, 5000000))

get_adjacent_area(self, v0) ==
    LET aasize == v0 * 180
        Min(a, b) == IF a < b THEN a ELSE b
        Max(a, b) == IF a > b THEN a ELSE b
    IN  Max(5000000, Min(aasize, 35000000))

\* ------------------------------------------------------------ run: inputs
Params ==
    [hfg : {0, 20000, 120000},
     opType : {"VLOS", "BVLOS", "EVLOS"},
     aircraftType : AIRCRAFTTYPS \cup {"fixed-wing"},
     prsEquipped : BOOLEAN,
     cd : {1200, 3000},
     v0 : {15000 * i : i \in 0..SpeedSteps},
     roc : {3000},
     rod : {1000, 3000},
     wind : {5000}]

\* fg is the number of features of the FeatureCollection.
RunReq == [fg : 0..MaxFeatures, params : Params]

\* --------------------------------------------------- run: lines 60 to 69
Float(x) == [type |-> "float", val |-> x]

\* Variant: line 66 is missing, so sd_m keeps the value of line 64.
sd_m_line64(self, p) ==
    get_ddeco(self, p.v0, p.rod, p.cd, ToString(p.hfg), p.wind)

\* sd_m: assigned at line 64 (arguments in a different order), then
\* reassigned at line 66, which is the value the handler goes on with.
sd_m_of(self, p) ==
    LET line64 == get_ddeco(self, p.v0, p.rod, p.cd, ToString(p.hfg), p.wind)
        line66 == get_ddeco(self, p.v0, p.rod, p.hfg, p.opType, p.cd)
    IN  line66

\* Variant: Hdeco is zero, not None, when the mode is not BVLOS.
hd_m_zero(self, p) ==
    IF p.opType = "BVLOS" THEN Float(get_hdeco(self, p.roc, p.rod, p.hfg))
    ELSE Float(0)

hd_m_of(self, p) ==
    IF p.opType = "BVLOS" THEN Float(get_hdeco(self, p.roc, p.rod, p.hfg))
    ELSE None

Distances(self, p) ==
    [scv_m |-> get_scv(self, p.v0),
     hcv_m |-> get_hcv(self, p.v0, p.hfg, p.roc),
     grb_m |-> get_sgrb(self, p.v0, p.wind, p.cd, p.hfg, p.roc),
     sd_m  |-> sd_m_of(self, p),
     aa_m  |-> get_adjacent_area(self, p.v0),
     hd_m  |-> hd_m_of(self, p),
     ah_m  |-> 1000000]

\* The calculator methods the handler calls, in call order.
Calls(p) ==
    <<"get_scv", "get_hcv", "get_sgrb", "get_ddeco", "get_adjacent_area",
      "get_ddeco">>
        \o (IF p.opType = "BVLOS" THEN <<"get_hdeco">> ELSE <<>>)

\* ------------------------------------------------- run: lines 82 to 125
\* Variant: the sign of the distance is not looked at.
buf_any_distance(base_lv95, distance_m) ==
    IF distance_m = None THEN None
    ELSE [type |-> "Polygon", crs |-> "EPSG:4326",
          parts |-> base_lv95.parts, buffer |-> distance_m.val]

buf(base_lv95, distance_m) ==
    IF distance_m = None \/ distance_m.val <= 0 THEN None
    ELSE [type |-> "Polygon", crs |-> "EPSG:4326",
          parts |-> base_lv95.parts, buffer |-> distance_m.val]

feature_or_none(base_lv95, distance_m, style) ==
    LET geom == buf(base_lv95, distance_m)
    IN  IF geom = None THEN None
        ELSE [type |-> "Feature", geometry |-> geom,
              properties |-> [style |-> style]]

fc(features) ==
    [type |-> "FeatureCollection",
     features |-> SelectSeq(features, LAMBDA f : f # None)]

add_name(fc_obj, name) ==
    IF fc_obj = None THEN fc_obj
    ELSE [fc_obj EXCEPT !.features =
            [i \in DOMAIN @ |->
                [@[i] EXCEPT !.properties =
                    [style |-> @.style, name |-> name]]]]

style_ca == [color |-> "#000000", weight |-> 1, fillColor |-> "#DDB027"]
style_grb == [color |-> "#000000", weight |-> 1, fillColor |-> "#DD3927"]
style_ah == [color |-> "#0000FF", weight |-> 3, dashArray |-> "4,6"]
style_sd == [color |-> "#00009B", weight |-> 3, dashArray |-> "4,6"]
style_aa == [color |-> "#FF0000", weight |-> 3, dashArray |-> "2,6"]

LayerKeys ==
    {"ca", "grb", "assemblies_horizon", "adjacent_area", "detection_area"}

LayerName ==
    [ca |-> "Scv (Containment Area)", grb |-> "Grb (Ground Risk Buffer)",
     assemblies_horizon |-> "Assemblies Horizon",
     adjacent_area |-> "Adjacent Area", detection_area |-> "Detection Area"]

LayerStyle ==
    [ca |-> style_ca, grb |-> style_grb, assemblies_horizon |-> style_ah,
     adjacent_area |-> style_aa, detection_area |-> style_sd]

\* The distance each layer is buffered with (the argument of feature_or_none).
Radii(d) ==
    [ca |-> d.scv_m,
     grb |-> d.grb_m + d.scv_m,
     assemblies_horizon |-> d.ah_m + d.scv_m,
     adjacent_area |-> d.aa_m + d.grb_m,
     detection_area |-> d.sd_m + d.scv_m]

Layer(base_lv95, distance_m, style, name) ==
    add_name(fc(<<feature_or_none(base_lv95, Float(distance_m), style)>>), name)

Layers(base_lv95, d) ==
    [k \in LayerKeys |->
        Layer(base_lv95, Radii(d)[k], LayerStyle[k], LayerName[k])]

Meta(d, p) ==
    [scv_m |-> d.scv_m, hcv_m |-> d.hcv_m, grb_m |-> d.grb_m,
     ah_m |-> d.ah_m, sd_m |-> d.sd_m, hd_m |-> d.hd_m, aa_m |-> d.aa_m,
     inputs |-> p]

\* ------------------------------------------------------------ run: steps
Init ==
    /\ pc = "start"
    /\ req \in RunReq
    /\ grb = None
    /\ dist = None
    /\ evaluated = <<>>
    /\ work = {}
    /\ layers = None
    /\ resp = None
    /\ error = ""
    /\ out = None

\* lines 55 to 58
Construct ==
    /\ pc = "start"
    /\ LET r == GroundRiskBufferCalc("current", req.params.aircraftType,
                                     req.params.prsEquipped)
       IN  IF r.exc = ""
           THEN /\ grb' = r.self
                /\ pc' = "distances"
                /\ error' = error
           ELSE /\ grb' = grb
                /\ pc' = "failed"
                /\ error' = r.exc
    /\ UNCHANGED <<req, dist, evaluated, work, layers, resp, out>>

\* lines 61 to 69
ComputeDistances ==
    /\ pc = "distances"
    /\ dist' = Distances(grb, req.params)
    /\ evaluated' = Calls(req.params)
    /\ pc' = "crs"
    /\ UNCHANGED <<req, grb, work, layers, resp, error, out>>

\* lines 72 to 73
SetUpTransformers ==
    /\ pc = "crs"
    /\ work' = work \cup {"Transformer.from_crs"}
    /\ pc' = "features"
    /\ UNCHANGED <<req, grb, dist, evaluated, layers, resp, error, out>>

\* lines 75 to 77
CheckFeatures ==
    /\ pc = "features"
    /\ IF req.fg = 0
       THEN pc' = "failed" /\ error' = "HTTPException(400)"
       ELSE pc' = "union" /\ error' = error
    /\ UNCHANGED <<req, grb, dist, evaluated, work, layers, resp, out>>

\* lines 79 to 80
UnionAndProject ==
    /\ pc = "union"
    /\ work' = work \cup {"unary_union", "transform"}
    /\ pc' = "layers"
    /\ UNCHANGED <<req, grb, dist, evaluated, layers, resp, error, out>>

base_lv95_of(r) == [crs |-> "EPSG:2056", parts |-> r.fg]

\* lines 119 to 125
BuildLayers ==
    /\ pc = "layers"
    /\ layers' = Layers(base_lv95_of(req), dist)
    /\ work' = work \cup
         (IF \E k \in LayerKeys : Radii(dist)[k] > 0 THEN {"buffer"} ELSE {})
    /\ pc' = "return"
    /\ UNCHANGED <<req, grb, dist, evaluated, resp, error, out>>

\* lines 127 to 145
Return ==
    /\ pc = "return"
    /\ resp' = [meta |-> Meta(dist, req.params), layers |-> layers]
    /\ pc' = "done"
    /\ UNCHANGED <<req, grb, dist, evaluated, work, layers, error, out>>

Next ==
    \/ Construct
    \/ ComputeDistances
    \/ SetUpTransformers
    \/ CheckFeatures
    \/ UnionAndProject
    \/ BuildLayers
    \/ Return

Spec == Init /\ [][Next]_vars

\* ------------------------------------------- the calculator used directly
CalcSpeeds == {15000 * i : i \in 0..SpeedSteps} \cup {-10000, 100000, 250000}

CalcDimensions == {1200, 3000}

CalcArgs ==
    [version : {"current", "3.3.0", "2.0.0"},
     aircraftType : AIRCRAFTTYPS \cup {"fixed-wing"},
     prsEquipped : BOOLEAN,
     v0 : CalcSpeeds,
     wind : {5000},
     cd : CalcDimensions,
     hfg : {0, 20000, 120000},
     roc : {3000}]

CalcInit ==
    /\ pc = "new"
    /\ req \in CalcArgs
    /\ grb = None
    /\ dist = None
    /\ evaluated = <<>>
    /\ work = {}
    /\ layers = None
    /\ resp = None
    /\ error = ""
    /\ out = None

\* GroundRiskBufferCalc(version, aircrafttype, prs_enabled)
New ==
    /\ pc = "new"
    /\ LET r == GroundRiskBufferCalc(req.version, req.aircraftType,
                                     req.prsEquipped)
       IN  IF r.exc = ""
           THEN /\ grb' = r.self
                /\ pc' = "ready"
                /\ error' = error
           ELSE /\ grb' = grb
                /\ pc' = "failed"
                /\ error' = r.exc
    /\ UNCHANGED <<req, dist, evaluated, work, layers, resp, out>>

CallSgrb ==
    /\ pc = "ready"
    /\ out' = [fn |-> "get_sgrb",
               val |-> get_sgrb(grb, req.v0, req.wind, req.cd, req.hfg, req.roc)]
    /\ evaluated' = Append(evaluated, "get_sgrb")
    /\ pc' = "called"
    /\ UNCHANGED <<req, grb, dist, work, layers, resp, error>>

CallAdjacentArea ==
    /\ pc = "ready"
    /\ out' = [fn |-> "get_adjacent_area", val |-> get_adjacent_area(grb, req.v0)]
    /\ evaluated' = Append(evaluated, "get_adjacent_area")
    /\ pc' = "called"
    /\ UNCHANGED <<req, grb, dist, work, layers, resp, error>>

CalcNext ==
    \/ New
    \/ CallSgrb
    \/ CallAdjacentArea

CalcSpec == CalcInit /\ [][CalcNext]_vars

\* ------------------------------------------------------------ properties
Range(f) == {f[i] : i \in DOMAIN f}

\* x in metres, rounded to two decimals (in centimetres) and to one decimal.
Round2(x) == (x + 5) \div 10
Round1(x) == (x + 50) \div 100

EmptyCollection == [type |-> "FeatureCollection", features |-> <<>>]

\* A collection holding one feature of the given buffer, style and name.
IsNamedStyled(c, radius, style, name) ==
    /\ c # None
    /\ c.type = "FeatureCollection"
    /\ Len(c.features) = 1
    /\ c.features[1].geometry.buffer = radius
    /\ c.features[1].properties.style = style
    /\ c.features[1].properties.name = name

C2_RejectedBeforeAnyWork ==
    /\ req.fg = 0 => pc # "done" /\ resp = None /\ layers = None
    /\ (pc = "failed" /\ error = "HTTPException(400)") => work = {}

\* C3: every distance present in the returned meta is >= 0.
C3_DistancesNonNegative ==
    pc = "done" =>
        /\ resp.meta.scv_m >= 0
        /\ resp.meta.hcv_m >= 0
        /\ resp.meta.grb_m >= 0
        /\ resp.meta.sd_m >= 0
        /\ resp.meta.aa_m >= 0
        /\ resp.meta.ah_m >= 0
        /\ resp.meta.hd_m # None => resp.meta.hd_m.val >= 0

\* C4: once the distances are computed, hd_m carries a value iff the
\* operation mode is BVLOS; for any other mode it is None (not a zero) and
\* get_hdeco was not called; the response reports that same hd_m.
C4_HdecoIffBVLOS ==
    /\ dist # None =>
        /\ req.params.opType = "BVLOS" =>
               /\ dist.hd_m # None
               /\ dist.hd_m.type = "float"
               /\ "get_hdeco" \in Range(evaluated)
        /\ req.params.opType # "BVLOS" =>
               /\ dist.hd_m = None
               /\ "get_hdeco" \notin Range(evaluated)
    /\ pc = "done" => resp.meta.hd_m = dist.hd_m

\* A response to a request that is not BVLOS, without Hdeco.
C4_Witness ==
    /\ pc = "done"
    /\ req.params.opType # "BVLOS"
    /\ resp.meta.hd_m = None

\* The buffer a layer of the response was drawn with: 0 stands for none.
BufferOf(c) == IF Len(c.features) = 0 THEN 0 ELSE c.features[1].geometry.buffer

\* C5: the response's layers have exactly the five keys, and each layer is
\* buffered with Scv, Sgrb + Scv, 1000 + Scv, adjacentAreaRadius + Sgrb and
\* Ddeco + Scv of the response's meta, Ddeco being get_ddeco for the
\* request's operation mode (a radius <= 0 draws nothing).
C5_LayerRadii ==
    pc = "done" =>
        LET m == resp.meta
            p == req.params
            want == [ca |-> m.scv_m,
                     grb |-> m.grb_m + m.scv_m,
                     assemblies_horizon |-> 1000000 + m.scv_m,
                     adjacent_area |-> m.aa_m + m.grb_m,
                     detection_area |-> m.sd_m + m.scv_m]
        IN  /\ DOMAIN resp.layers = LayerKeys
            /\ m.sd_m = get_ddeco(grb, p.v0, p.rod, p.hfg, p.opType, p.cd)
            /\ m.ah_m = 1000000
            /\ \A k \in LayerKeys :
                BufferOf(resp.layers[k]) = (IF want[k] > 0 THEN want[k] ELSE 0)

\* A response in which all five layers were drawn.
C5_Witness ==
    /\ pc = "done"
    /\ \A k \in LayerKeys : Len(resp.layers[k].features) = 1

\* C6: construction with a version that is no constants row fails; with the
\* alias "current" or the key of an existing row (and a valid aircraft
\* class) it succeeds and selects that row.
C6_VersionResolution ==
    pc # "new" =>
        LET row == IF req.version = "current" THEN CURRENT_VERSION
                   ELSE req.version
        IN  /\ row \notin DOMAIN CONST =>
                pc = "failed" /\ error # "" /\ grb = None
            /\ (row \in DOMAIN CONST /\ req.aircraftType \in AIRCRAFTTYPS) =>
                /\ pc # "failed"
                /\ grb # None
                /\ grb.version = row
                /\ grb.const = CONST[row]

C8_SgrbBranches ==
    (pc = "called" /\ out.fn = "get_sgrb") =>
        LET Hcv == get_hcv(grb, req.v0, req.hfg, req.roc)
            cap == Hcv + req.cd \div 2
            cand == MulFix(req.v0, sqrt(DivFix(2 * Hcv, grb.const.g)))
                        + req.cd \div 2
        IN  /\ grb.prs_enabled =>
                /\ out.val = 2 * req.v0 + MulFix(req.wind, Hcv \div 5)
                /\ \A c \in CalcDimensions :
                     get_sgrb(grb, req.v0, req.wind, c, req.hfg, req.roc) = out.val
            /\ (~grb.prs_enabled /\ grb.aircrafttype = "rotorcraft") =>
                /\ out.val = (IF cand < cap THEN cand ELSE cap)
                /\ out.val <= cap
            /\ (~grb.prs_enabled /\ grb.aircrafttype = "fixedwing") =>
                out.val = cap

\* get_sgrb was called on a PRS-equipped rotorcraft.
C8_Witness ==
    /\ pc = "called"
    /\ out.fn = "get_sgrb"
    /\ grb.prs_enabled
    /\ grb.aircrafttype = "rotorcraft"

\* The end-to-end example of the specification.
Example ==
    [hfg |-> 120000, opType |-> "VLOS", aircraftType |-> "rotorcraft",
     prsEquipped |-> FALSE, cd |-> 1200, v0 |-> 15000, roc |-> 3000,
     rod |-> 3000, wind |-> 5000]

\* C9, as claimed: the example yields Scv = 33.47, Hcv = 138.48 and
\* Sgrb = 89.73, and the grb layer is buffered with 123.2 m.
C9_ExampleAsClaimed ==
    (pc = "done" /\ req.params = Example) =>
        /\ Round2(resp.meta.scv_m) = 3347
        /\ Round2(resp.meta.hcv_m) = 13848
        /\ Round2(resp.meta.grb_m) = 8973
        /\ Round1(BufferOf(resp.layers["grb"])) = 1232

\* C9, amended: the example yields Scv = 33.47, Hcv = 138.47 and
\* Sgrb = 80.30, and the grb layer is buffered with Sgrb + Scv = 113.8 m.
C9_Example ==
    (pc = "done" /\ req.params = Example) =>
        /\ Round2(resp.meta.scv_m) = 3347
        /\ Round2(resp.meta.hcv_m) = 13847
        /\ Round2(resp.meta.grb_m) = 8030
        /\ BufferOf(resp.layers["grb"]) = resp.meta.grb_m + resp.meta.scv_m
        /\ Round1(BufferOf(resp.layers["grb"])) = 1138

\* The response to the example request.
C9_Witness ==
    /\ pc = "done"
    /\ req.params = Example

\* C10: get_adjacent_area(v0) is v0 * 180 clamped to [5000, 35000] for every
\* v0, zero and negative included, and no smaller v0 gives a larger result.
C10_AdjacentAreaClamp ==
    (pc = "called" /\ out.fn = "get_adjacent_area") =>
        /\ out.val >= 5000000
        /\ out.val <= 35000000
        /\ req.v0 * 180 < 5000000 => out.val = 5000000
        /\ req.v0 * 180 > 35000000 => out.val = 35000000
        /\ (req.v0 * 180 >= 5000000 /\ req.v0 * 180 <= 35000000) =>
               out.val = req.v0 * 180
        /\ \A v \in CalcSpeeds :
               v <= req.v0 => get_adjacent_area(grb, v) <= out.val

\* get_adjacent_area was called with a negative speed.
C10_Witness ==
    /\ pc = "called"
    /\ out.fn = "get_adjacent_area"
    /\ req.v0 < 0
    /\ out.val = 5000000

=============================================================================
